---- MODULE Spec2Model ----
(***************************************************************************)
(* Model of the unit algebra of src/src/lib.rs: the recursive unit         *)
(* expression UnitKind, the quantity Unit<T> and its operators.            *)
(*                                                                         *)
(* Modelling decisions:                                                    *)
(*  - T is an integer magnitude type (tests.rs uses i32 quantities).  The  *)
(*    magnitude arithmetic of the generic T is exact integer arithmetic,   *)
(*    except its division, which truncates toward zero and aborts on a     *)
(*    zero divisor as Rust's integer division does.  Floating-point        *)
(*    magnitudes are not modelled; powi is taken on integral values.       *)
(*  - The exponent of UnitKind::Pow is the concrete type usize; `pow + 1`  *)
(*    (lib.rs:209) keeps its width.  On overflow a build with overflow     *)
(*    checks panics and a build without them wraps; overflow_checks is the *)
(*    build's choice.  usize is as wide as the target's pointers; the      *)
(*    model uses the narrowest width Rust targets have (16 bits), the      *)
(*    behaviour at the maximum being the same at every width.              *)
(*  - A panic ends the computation: an operator yields Ok(value) or        *)
(*    Panic(message).                                                      *)
(***************************************************************************)
EXTENDS Integers, Sequences, FiniteSets, TLC

VARIABLES
    left,             \* the left operand (self), a quantity
    right,            \* the right operand (rhs / other), a quantity
    arg,              \* the scalar or exponent argument of the last operation
    result,           \* what the last operation returned: Ok(..) or Panic(..)
    op,               \* the last operation applied
    overflow_checks,  \* whether the build panics on integer overflow
    count,            \* number of operations applied in a chained computation
    chain             \* history: the quantities multiplied so far in a pure
                      \* product chain q1 * q2 * ... (<<>> once it is not one)

vars == <<left, right, arg, result, op, overflow_checks, count, chain>>

\* Longest chained computation explored.
MaxSteps == 3

\* A chained computation is explored while its magnitudes stay within this.
MaxMagnitude == 30000

\* Width of usize, the exponent type of UnitKind::Pow.
UsizeBits == 16
UsizeMax == 2^UsizeBits - 1

----------------------------------------------------------------------------
\* UnitKind (lib.rs:30-38)

Native(name) == [kind |-> "Native", name |-> name]
Custom(text) == [kind |-> "Custom", name |-> text]
Pro(u1, u2) == [kind |-> "Pro", a |-> u1, b |-> u2]
Per(u1, u2) == [kind |-> "Per", a |-> u1, b |-> u2]
Pow(unit, pow) == [kind |-> "Pow", base |-> unit, pow |-> pow]
None == [kind |-> "None"]

\* #[derive(PartialEq)] on UnitKind: same variant, then field by field.
RECURSIVE unit_eq(_, _)
unit_eq(u1, u2) ==
    IF u1.kind # u2.kind THEN FALSE
    ELSE CASE u1.kind \in {"Pro", "Per"} -> unit_eq(u1.a, u2.a) /\ unit_eq(u1.b, u2.b)
           [] u1.kind = "Pow" -> unit_eq(u1.base, u2.base) /\ u1.pow = u2.pow
           [] u1.kind \in {"Native", "Custom"} -> u1.name = u2.name
           [] OTHER -> TRUE

\* Display for NativeUnit.
native_fmt(name) ==
    CASE name = "Meter" -> "m"
      [] name = "Liter" -> "l"
      [] name = "Gramm" -> "g"
      [] name = "Second" -> "s"
      [] name = "Minute" -> "min"
      [] name = "Hour" -> "h"
      [] name = "Day" -> "d"
      [] name = "Week" -> "w"
      [] name = "Year" -> "y"

\* Display for UnitKind.
RECURSIVE unit_fmt(_)
unit_fmt(u) ==
    CASE u.kind = "Native" -> native_fmt(u.name)
      [] u.kind = "Custom" -> u.name
      [] u.kind = "Pro" -> unit_fmt(u.a) \o "/" \o unit_fmt(u.b)
      [] u.kind = "Per" -> unit_fmt(u.a) \o "*" \o unit_fmt(u.b)
      [] u.kind = "Pow" -> unit_fmt(u.base) \o "^" \o ToString(u.pow)
      [] u.kind = "None" -> ""

----------------------------------------------------------------------------
\* Outcomes of an operation, and the magnitude arithmetic of T.

Ok(v) == [tag |-> "Ok", val |-> v]
Panic(msg) == [tag |-> "Panic", msg |-> msg]
NoResult == [tag |-> "NoResult"]

abs(x) == IF x < 0 THEN -x ELSE x

\* T's `/` for an integer T: truncates toward zero, panics on a zero divisor.
value_div(x, y) ==
    IF y = 0 THEN Panic("attempt to divide by zero")
    ELSE LET q == abs(x) \div abs(y)
         IN  Ok(IF (x < 0) # (y < 0) THEN -q ELSE q)

\* i32::pow / i64::pow.
RECURSIVE value_pow(_, _)
value_pow(x, n) == IF n = 0 THEN 1 ELSE x * value_pow(x, n - 1)

\* `pow + 1` on usize: panics with overflow checks, wraps without.
usize_add(p, k) ==
    IF p + k > UsizeMax /\ overflow_checks
    THEN Panic("attempt to add with overflow")
    ELSE Ok((p + k) % (UsizeMax + 1))

----------------------------------------------------------------------------
\* Unit<T> (lib.rs:72-269)

new(value, unit) == [value |-> value, unit |-> unit]

\* Display for Unit<T>.
fmt(self) == ToString(self.value) \o unit_fmt(self.unit)

\* Mutation of powf: the exponentiation also raises the unit.
powf_raising_unit(self, n) == new(value_pow(self.value, n), Pow(self.unit, n))

powf(self, n) == new(value_pow(self.value, n), self.unit)
powi(self, n) == new(value_pow(self.value, n), self.unit)

eq(self, other) == self.value = other.value /\ unit_eq(self.unit, other.unit)
gt(self, other) == self.value > other.value /\ unit_eq(self.unit, other.unit)
\* Mutation of lt: the magnitudes alone decide.
lt_by_magnitude(self, other) == self.value < other.value
lt(self, other) == self.value < other.value /\ unit_eq(self.unit, other.unit)
ge(self, other) == self.value >= other.value /\ unit_eq(self.unit, other.unit)
le(self, other) == self.value =< other.value /\ unit_eq(self.unit, other.unit)

partial_cmp(self, other) ==
    IF lt(self, other) THEN "Some(Less)"
    ELSE IF gt(self, other) THEN "Some(Greater)"
    ELSE IF eq(self, other) THEN "Some(Equal)"
    ELSE "None"

\* Mutation of max: the magnitudes alone decide.
max_by_magnitude(self, other) == IF self.value >= other.value THEN self ELSE other

max(self, other) == IF ge(self, other) THEN self ELSE other
min(self, other) == IF le(self, other) THEN self ELSE other

\* Mutation of add: the units are not compared.
add_unchecked(self, rhs) == Ok(new(self.value + rhs.value, self.unit))

add(self, rhs) ==
    IF ~unit_eq(self.unit, rhs.unit)
    THEN Panic("cannot add " \o unit_fmt(self.unit) \o " with " \o unit_fmt(rhs.unit))
    ELSE Ok(new(self.value + rhs.value, self.unit))

sub(self, rhs) ==
    IF ~unit_eq(self.unit, rhs.unit)
    THEN Panic("cannot subtract " \o unit_fmt(self.unit) \o " with " \o unit_fmt(rhs.unit))
    ELSE Ok(new(self.value - rhs.value, self.unit))

\* Mutation of mul: no arm for a Pow on the left.
mul_without_pow_arm(self, rhs) ==
    LET u1 == self.unit
        u2 == rhs.unit
        v == self.value * rhs.value
    IN  IF u1.kind = "Pro" /\ unit_eq(u1.b, u2) THEN Ok(new(v, u1.a))
        ELSE IF unit_eq(u1, u2) THEN Ok(new(v, Pow(u1, 2)))
        ELSE Ok(new(v, Per(u1, u2)))

\* Mutation of mul: no arm for a Pro on the left.
mul_without_pro_arm(self, rhs) ==
    LET u1 == self.unit
        u2 == rhs.unit
        v == self.value * rhs.value
    IN  IF u1.kind = "Pow" /\ unit_eq(u1.base, u2)
        THEN LET p == usize_add(u1.pow, 1)
             IN  IF p.tag = "Panic" THEN p ELSE Ok(new(v, Pow(u1.base, p.val)))
        ELSE IF unit_eq(u1, u2) THEN Ok(new(v, Pow(u1, 2)))
        ELSE Ok(new(v, Per(u1, u2)))

\* Mutation of mul: the first self-multiplication starts at exponent 1.
mul_squaring_to_one(self, rhs) ==
    LET u1 == self.unit
        u2 == rhs.unit
        v == self.value * rhs.value
    IN  IF u1.kind = "Pow" /\ unit_eq(u1.base, u2)
        THEN LET p == usize_add(u1.pow, 1)
             IN  IF p.tag = "Panic" THEN p ELSE Ok(new(v, Pow(u1.base, p.val)))
        ELSE IF u1.kind = "Pro" /\ unit_eq(u1.b, u2) THEN Ok(new(v, u1.a))
        ELSE IF unit_eq(u1, u2) THEN Ok(new(v, Pow(u1, 1)))
        ELSE Ok(new(v, Per(u1, u2)))

\* Mul for Unit<T>: the match arms in source order.
mul(self, rhs) ==
    LET u1 == self.unit
        u2 == rhs.unit
        v == self.value * rhs.value
    IN  IF u1.kind = "Pow" /\ unit_eq(u1.base, u2)
        THEN LET p == usize_add(u1.pow, 1)
             IN  IF p.tag = "Panic" THEN p ELSE Ok(new(v, Pow(u1.base, p.val)))
        ELSE IF u1.kind = "Pro" /\ unit_eq(u1.b, u2) THEN Ok(new(v, u1.a))
        ELSE IF unit_eq(u1, u2) THEN Ok(new(v, Pow(u1, 2)))
        ELSE Ok(new(v, Per(u1, u2)))

\* Mutation of div: the first arm cancels a Pro instead of a Per.
div_cancelling_pro(self, rhs) ==
    LET u1 == self.unit
        u2 == rhs.unit
        v == value_div(self.value, rhs.value)
    IN  IF v.tag = "Panic" THEN v
        ELSE IF u1.kind = "Pro" /\ unit_eq(u1.b, u2) THEN Ok(new(v.val, u1.a))
        ELSE IF unit_eq(u1, u2) THEN Ok(new(v.val, None))
        ELSE Ok(new(v.val, Pro(u1, u2)))

\* Div for Unit<T>: the match arms in source order.
div(self, rhs) ==
    LET u1 == self.unit
        u2 == rhs.unit
        v == value_div(self.value, rhs.value)
    IN  IF v.tag = "Panic" THEN v
        ELSE IF u1.kind = "Per" /\ unit_eq(u1.b, u2) THEN Ok(new(v.val, u1.a))
        ELSE IF unit_eq(u1, u2) THEN Ok(new(v.val, None))
        ELSE Ok(new(v.val, Pro(u1, u2)))

\* Mul<isize> / Div<isize> for Unit<T>, Neg for Unit<T>.
mul_scalar(self, k) == new(self.value * k, self.unit)

div_scalar(self, k) ==
    LET v == value_div(self.value, k)
    IN  IF v.tag = "Panic" THEN v ELSE Ok(new(v.val, self.unit))

neg(self) == new(-self.value, self.unit)

----------------------------------------------------------------------------
\* Inputs of the operators.

Meter == Native("Meter")
Second == Native("Second")
Atoms == {Meter, Second, Custom("kg"), None}
Exponents == {0, 2, UsizeMax}

\* One constructor applied to atoms.
Composites ==
    {Pro(u1, u2) : u1 \in Atoms, u2 \in Atoms}
    \cup {Per(u1, u2) : u1 \in Atoms, u2 \in Atoms}
    \cup {Pow(u, p) : u \in Atoms, p \in Exponents}

\* A constructor applied to a composite.
Nested ==
    {Pow(Pro(Meter, Second), 2), Pow(Per(Meter, Second), UsizeMax),
     Pow(Pow(Meter, 2), 2), Pro(Pow(Meter, 2), Second), Pro(Meter, Pow(Second, 2)),
     Pro(Pro(Meter, Second), Second), Pro(Meter, Per(Meter, Second)),
     Per(Pro(Meter, Second), Second), Per(Meter, Pro(Meter, Second)),
     Per(Per(Meter, Second), Pow(Second, 2))}

LeftUnits == Atoms \cup Composites \cup Nested

Children(u) ==
    CASE u.kind \in {"Pro", "Per"} -> {u.a, u.b}
      [] u.kind = "Pow" -> {u.base}
      [] OTHER -> {}

\* The right operand's unit: the left unit, one of its parts, or another unit.
RightUnits(u) ==
    Atoms \cup {u} \cup Children(u) \cup {Pro(Meter, Second), Pow(Meter, 2)}

LeftValues == {-7, 20}
RightValues == {0, 2, 20}
Scalars == {-3, 0, 2}
PowArgs == {0, 1, 3}

----------------------------------------------------------------------------
\* Spec: one operator applied to a pair of arbitrary quantities.

Init ==
    /\ left \in {new(v, u) : v \in LeftValues, u \in LeftUnits}
    /\ right \in {new(v, u) : v \in RightValues, u \in RightUnits(left.unit)}
    /\ arg = 0
    /\ result = NoResult
    /\ op = "new"
    /\ overflow_checks \in BOOLEAN
    /\ count = 0
    /\ chain = <<>>

Apply(name, k, r) ==
    /\ op = "new"
    /\ op' = name
    /\ arg' = k
    /\ result' = r
    /\ UNCHANGED <<left, right, overflow_checks, count, chain>>

Add == Apply("add", 0, add(left, right))
Sub == Apply("sub", 0, sub(left, right))
Mul == Apply("mul", 0, mul(left, right))
Div == Apply("div", 0, div(left, right))
MulScalar == \E k \in Scalars : Apply("mul_scalar", k, Ok(mul_scalar(left, k)))
DivScalar == \E k \in Scalars : Apply("div_scalar", k, div_scalar(left, k))
Neg == Apply("neg", 0, Ok(neg(left)))
Powf == \E n \in PowArgs : Apply("powf", n, Ok(powf(left, n)))
Powi == \E n \in PowArgs : Apply("powi", n, Ok(powi(left, n)))
Eq == Apply("eq", 0, Ok(eq(left, right)))
Gt == Apply("gt", 0, Ok(gt(left, right)))
Lt == Apply("lt", 0, Ok(lt(left, right)))
Ge == Apply("ge", 0, Ok(ge(left, right)))
Le == Apply("le", 0, Ok(le(left, right)))
PartialCmp == Apply("partial_cmp", 0, Ok(partial_cmp(left, right)))
Max == Apply("max", 0, Ok(max(left, right)))
Min == Apply("min", 0, Ok(min(left, right)))
Fmt == Apply("fmt", 0, Ok(fmt(left)))

Next ==
    \/ Add \/ Sub \/ Mul \/ Div
    \/ MulScalar \/ DivScalar \/ Neg \/ Powf \/ Powi
    \/ Eq \/ Gt \/ Lt \/ Ge \/ Le \/ PartialCmp
    \/ Max \/ Min \/ Fmt

Spec == Init /\ [][Next]_vars

----------------------------------------------------------------------------
\* SpecChain: a computation that starts from quantities of atomic units and
\* keeps applying operators to the quantities it has produced.  left is the
\* accumulator, right the other operand; a panic ends the computation.

ChainValues == {10, 20, 30}
ChainAtoms == {Meter, Custom("kg"), None}
Fresh == {new(v, u) : v \in ChainValues, u \in ChainAtoms}

\* A quantity of a base or custom unit is a product chain of length one.
ChainOf(q) == IF q.unit.kind \in {"Native", "Custom"} THEN <<q>> ELSE <<>>

InitChain ==
    /\ left \in Fresh
    /\ right \in Fresh
    /\ arg = 0
    /\ result = NoResult
    /\ op = "new"
    /\ overflow_checks \in BOOLEAN
    /\ count = 0
    /\ chain = ChainOf(left)

Running ==
    /\ count < MaxSteps
    /\ result.tag # "Panic"
    /\ abs(left.value) =< MaxMagnitude
    /\ abs(right.value) =< MaxMagnitude

\* The accumulator takes the outcome r of an operator; pure tells that r is
\* the accumulated product chain times one more quantity of the chain's unit.
Step(name, k, r, pure) ==
    /\ Running
    /\ count' = count + 1
    /\ op' = name
    /\ arg' = k
    /\ result' = r
    /\ left' = IF r.tag = "Ok" THEN r.val ELSE left
    /\ chain' = IF r.tag # "Ok" THEN <<>>
                ELSE IF pure THEN Append(chain, right)
                ELSE ChainOf(r.val)
    /\ UNCHANGED <<right, overflow_checks>>

\* left = left * right, or left = right * left.
ChainMul ==
    \/ Step("mul", 0, mul(left, right), chain # <<>> /\ right.unit = chain[1].unit)
    \/ Step("mul", 1, mul(right, left), FALSE)
\* left = left / right, or left = right / left.
ChainDiv ==
    \/ Step("div", 0, div(left, right), FALSE)
    \/ Step("div", 1, div(right, left), FALSE)
ChainAdd == Step("add", 0, add(left, right), FALSE)
ChainSub == Step("sub", 0, sub(left, right), FALSE)
ChainNeg == Step("neg", 0, Ok(neg(left)), FALSE)
ChainMulScalar == Step("mul_scalar", 2, Ok(mul_scalar(left, 2)), FALSE)
ChainDivScalar == Step("div_scalar", 2, div_scalar(left, 2), FALSE)
ChainPowf == Step("powf", 2, Ok(powf(left, 2)), FALSE)

\* The other operand becomes a new quantity of an atomic unit.
Load ==
    /\ Running
    /\ right' \in Fresh
    /\ UNCHANGED <<left, arg, result, op, overflow_checks, count, chain>>

\* The other operand becomes the quantity produced so far.
Copy ==
    /\ Running
    /\ right' = left
    /\ UNCHANGED <<left, arg, result, op, overflow_checks, count, chain>>

NextChain ==
    \/ ChainMul \/ ChainDiv \/ ChainAdd \/ ChainSub
    \/ ChainNeg \/ ChainMulScalar \/ ChainDivScalar \/ ChainPowf
    \/ Load \/ Copy

SpecChain == InitChain /\ [][NextChain]_vars

----------------------------------------------------------------------------
\* Properties.  Structural equality of unit expressions is the equality of
\* the records that represent them.

\* q is the quotient of x by y, rounded toward zero.
IsQuotient(q, x, y) ==
    /\ abs(q) * abs(y) =< abs(x)
    /\ abs(x) < (abs(q) + 1) * abs(y)
    /\ q # 0 => ((q > 0) <=> ((x > 0) <=> (y > 0)))

\* The unit of a product by the rules of C1, the exponent a natural number.
MulRuleUnit(l, r) ==
    IF l.kind = "Pow" /\ l.base = r THEN Pow(l.base, l.pow + 1)
    ELSE IF l.kind = "Pro" /\ l.b = r THEN l.a
    ELSE IF l = r THEN Pow(l, 2)
    ELSE Per(l, r)

\* C1: Quantity * Quantity returns the product of the magnitudes and the unit
\* of the first matching rule: Power(u,p) * u -> Power(u,p+1); Ratio(u1,u2) *
\* u2 -> u1; u * u -> Power(u,2); otherwise Product(left,right).
C1_MulFollowsRules ==
    op = "mul" =>
        result = Ok(new(left.value * right.value, MulRuleUnit(left.unit, right.unit)))

\* C1 below the largest exponent: the four rules are what mul computes.
C1_MulFollowsRulesBelowMax ==
    (op = "mul" /\ ~(left.unit.kind = "Pow" /\ left.unit.pow = UsizeMax)) =>
        result = Ok(new(left.value * right.value, MulRuleUnit(left.unit, right.unit)))

\* The unit of a quotient as C2 states it: a Ratio on the left cancels.
ClaimedDivRuleUnit(l, r) ==
    IF l.kind = "Pro" /\ l.b = r THEN l.a
    ELSE IF l = r THEN None
    ELSE Pro(l, r)

\* The unit of a quotient with a Product on the left cancelling.
DivRuleUnit(l, r) ==
    IF l.kind = "Per" /\ l.b = r THEN l.a
    ELSE IF l = r THEN None
    ELSE Pro(l, r)

C3_AddSubRequireEqualUnits ==
    /\ op = "add" =>
        IF left.unit # right.unit
        THEN result = Panic("cannot add " \o unit_fmt(left.unit)
                            \o " with " \o unit_fmt(right.unit))
        ELSE result = Ok(new(left.value + right.value, left.unit))
    /\ op = "sub" =>
        IF left.unit # right.unit
        THEN result = Panic("cannot subtract " \o unit_fmt(left.unit)
                            \o " with " \o unit_fmt(right.unit))
        ELSE result = Ok(new(left.value - right.value, left.unit))

C3_Witness ==
    /\ op = "add"
    /\ left.unit = Pro(Meter, Second)
    /\ right.unit = Second
    /\ result = Panic("cannot add m/s with s")

\* C4: multiplication, division, the comparison operators and rendering
\* never abort, whatever the operands.
C4_OnlyAddSubFail ==
    op \in {"mul", "div", "eq", "gt", "lt", "ge", "le", "partial_cmp", "fmt"} =>
        result.tag = "Ok"

RECURSIVE ProductOfValues(_)
ProductOfValues(qs) ==
    IF qs = <<>> THEN 1 ELSE Head(qs).value * ProductOfValues(Tail(qs))

\* C5: the left-associated product q1 * ... * qn (n >= 2) of quantities of
\* one base or custom unit u has unit Power(u, n) and the product of the
\* magnitudes.
C5_ExponentAccumulates ==
    Len(chain) >= 2 =>
        /\ \A i \in 1..Len(chain) :
            /\ chain[i].unit = chain[1].unit
            /\ chain[i].unit.kind \in {"Native", "Custom"}
        /\ left.unit = Pow(chain[1].unit, Len(chain))
        /\ left.value = ProductOfValues(chain)

C5_Witness ==
    /\ chain = <<new(20, Meter), new(10, Meter), new(30, Meter)>>
    /\ left = new(6000, Pow(Meter, 3))

BaseUnit(u) == u.kind = "Native"

C7_ComparisonNeedsEqualUnits ==
    LET same == left.unit = right.unit
        Compared(f(_, _), name, holds) ==
            /\ f(left, right) <=> (same /\ holds)
            /\ op = name => result = Ok(same /\ holds)
    IN  /\ Compared(lt, "lt", left.value < right.value)
        /\ Compared(le, "le", left.value =< right.value)
        /\ Compared(gt, "gt", left.value > right.value)
        /\ Compared(ge, "ge", left.value >= right.value)
        /\ Compared(eq, "eq", left.value = right.value)
        /\ ~same =>
            /\ ~lt(right, left) /\ ~le(right, left)
            /\ ~gt(right, left) /\ ~ge(right, left)
            /\ partial_cmp(left, right) = "None"
            /\ partial_cmp(right, left) = "None"
        /\ same =>
            partial_cmp(left, right) =
                IF left.value < right.value THEN "Some(Less)"
                ELSE IF left.value > right.value THEN "Some(Greater)"
                ELSE "Some(Equal)"
        /\ op = "partial_cmp" => result = Ok(partial_cmp(left, right))

C7_Witness ==
    /\ op = "partial_cmp"
    /\ left = new(20, Meter)
    /\ right = new(2, Second)
    /\ result = Ok("None")

RECURSIVE Power(_, _)
Power(x, n) == IF n = 0 THEN 1 ELSE Power(x, n - 1) * x

C9_MaxMinPickSecond ==
    LET same == left.unit = right.unit
    IN  /\ op = "max" =>
            result = Ok(IF same /\ left.value >= right.value THEN left ELSE right)
        /\ op = "min" =>
            result = Ok(IF same /\ left.value =< right.value THEN left ELSE right)
        /\ (op \in {"max", "min"} /\ ~same) => result = Ok(right)

C9_Witness ==
    /\ op = "max"
    /\ left = new(20, Meter)
    /\ right = new(2, Second)
    /\ result = Ok(right)

RECURSIVE PowersAtLeastTwo(_)
PowersAtLeastTwo(u) ==
    CASE u.kind \in {"Pro", "Per"} -> PowersAtLeastTwo(u.a) /\ PowersAtLeastTwo(u.b)
      [] u.kind = "Pow" -> u.pow >= 2 /\ PowersAtLeastTwo(u.base)
      [] OTHER -> TRUE

====
